---------------------------- MODULE Spec2Model ----------------------------
(***************************************************************************)
(* A model of the Node trait of dsp-chain (src/src/node.rs): the pan law   *)
(* vol_per_channel and the default recursive pull audio_requested, run as  *)
(* a stack machine over a tree of nodes.                                   *)
(*                                                                         *)
(* Samples, volumes and pans are f32 in the source.  They are modelled as  *)
(* exact rationals <<numerator, denominator>>.  Every value the model      *)
(* draws is a dyadic rational of a few bits, on which f32 addition and     *)
(* multiplication are exact, so the two arithmetics agree on the model's   *)
(* domain.  Sample = f32 (node.rs:22), for which to_f32 and from_f32       *)
(* (node.rs:75-76) return their argument.                                  *)
(***************************************************************************)
EXTENDS Integers, Sequences, FiniteSets, TLC

(***************************************************************************)
(* Bounds of the model.                                                    *)
(***************************************************************************)
MaxNodes == 3

MaxFrames == 2

MaxChannels == 3

MaxPanQ == 12

(* The length of the array vol_per_channel returns, [f32; 2].              *)
NumGains == 2

(***************************************************************************)
(* Exact rational arithmetic standing for f32 on dyadic values.            *)
(***************************************************************************)
IAbs(x) == IF x < 0 THEN -x ELSE x

RECURSIVE GCD(_, _)
GCD(a, b) == IF b = 0 THEN a ELSE GCD(b, a % b)

Norm(n, d) ==
    LET g == GCD(IAbs(n), d)
    IN  <<n \div g, d \div g>>

Q(n, d) == Norm(n, d)

Zero == <<0, 1>>

One == <<1, 1>>

RAdd(a, b) == Norm(a[1] * b[2] + b[1] * a[2], a[2] * b[2])

RSub(a, b) == Norm(a[1] * b[2] - b[1] * a[2], a[2] * b[2])

RMul(a, b) == Norm(a[1] * b[1], a[2] * b[2])

RAbs(a) == <<IAbs(a[1]), a[2]>>

RLeq(a, b) == a[1] * b[2] <= b[1] * a[2]

RLt(a, b) == a[1] * b[2] < b[1] * a[2]

(***************************************************************************)
(* State.                                                                  *)
(*   tree      the arena: n nodes, inputs[node] the sequence inputs()      *)
(*             returns; node 1 is the root                                 *)
(*   prof      per node: vol(), pan() and the kind of its process_buffer   *)
(*   settings  Settings: frames and channels                               *)
(*   output    the buffer the caller passes to the root's audio_requested  *)
(*   stack     the call stack of audio_requested, innermost frame last     *)
(*   phase     idle, running, done, or panic (the pull unwound)            *)
(*   fault     what index left its range when phase = panic                *)
(* History, read by the properties only:                                   *)
(*   prior     the content of output before the pull                       *)
(*   pulled, processed, mixed   per node: calls of audio_requested, calls  *)
(*             of process_buffer, completed mixes of its scratch buffer    *)
(*   produced  per node: its output buffer when its audio_requested        *)
(*             returned                                                    *)
(***************************************************************************)
VARIABLES tree, prof, settings, output, stack, phase, fault,
          prior, pulled, processed, mixed, produced

vars == <<tree, prof, settings, output, stack, phase, fault,
          prior, pulled, processed, mixed, produced>>

Nodes == 1..MaxNodes

(* The trees of n nodes: node k > 1 is an input of some node below k, and  *)
(* a node's inputs come in any order.                                      *)
Perms(S) ==
    {s \in [1..Cardinality(S) -> S] : \A a, b \in 1..Cardinality(S) : s[a] = s[b] => a = b}

ParentMaps(n) ==
    {p \in [2..n -> 1..n] : \A k \in 2..n : p[k] < k}

InputSeqs(n, p) ==
    {f \in [Nodes -> UNION {Perms(S) : S \in SUBSET (2..n)}] :
        \A m \in Nodes : f[m] \in Perms({k \in 2..n : p[k] = m})}

Trees ==
    UNION {{[n |-> n, inputs |-> f] : f \in InputSeqs(n, p)} :
           <<n, p>> \in UNION {{<<n, p>> : p \in ParentMaps(n)} : n \in 1..MaxNodes}}

(* Implementations of the trait: the defaults (vol 1, pan 0, no-op         *)
(* process_buffer) and overrides of vol, pan and process_buffer.           *)
Profiles ==
    { [vol |-> One,     pan |-> Zero,     kind |-> "noop"],
      [vol |-> One,     pan |-> Zero,     kind |-> "const"],
      [vol |-> Q(1, 2), pan |-> Q(-1, 2), kind |-> "noop"],
      [vol |-> Q(2, 1), pan |-> Q(1, 2),  kind |-> "ramp"],
      [vol |-> One,     pan |-> Q(3, 2),  kind |-> "double"] }

DefaultProfile == [vol |-> One, pan |-> Zero, kind |-> "noop"]

(* fn vol(&self), fn pan(&self), fn inputs(&mut self) *)
Vol(node) == prof[node].vol

Pan(node) == prof[node].pan

Inputs(node) == tree.inputs[node]

(* Variants of vol_per_channel: the channels exchanged; the pan clamped to *)
(* [-1, 1] first.                                                          *)
VolPerChannelSwapped(vol, pan) ==
    IF RLeq(Zero, pan)
    THEN <<vol, RMul(vol, RAbs(RSub(pan, One)))>>
    ELSE <<RMul(vol, RAdd(pan, One)), vol>>

VolPerChannelClamped(vol, pan) ==
    LET c == IF RLt(One, pan) THEN One ELSE IF RLt(pan, Q(-1, 1)) THEN Q(-1, 1) ELSE pan
    IN  IF RLeq(Zero, c)
        THEN <<RMul(vol, RAbs(RSub(c, One))), vol>>
        ELSE <<vol, RMul(vol, RAdd(c, One))>>

(***************************************************************************)
(* fn vol_per_channel(&self) -> [f32; 2]                                   *)
(***************************************************************************)
VolPerChannel(vol, pan) ==
    IF RLeq(Zero, pan)
    THEN <<RMul(vol, RAbs(RSub(pan, One))), vol>>
    ELSE <<vol, RMul(vol, RAdd(pan, One))>>

(***************************************************************************)
(* Buffers: sequences of samples; sample idx of the source is element      *)
(* idx + 1.                                                                *)
(***************************************************************************)
BufferSize == settings.frames * settings.channels

(* AudioBuffer::zeroed(buffer_size) *)
Zeroed(len) == [x \in 1..len |-> Zero]

Pattern(len) == [x \in 1..len |-> Q(x, 1)]

ConstValue == Q(1, 2)

(* process_buffer: the default no-op, and three overrides: a source that   *)
(* writes a constant, a source that writes a ramp, an effect that doubles. *)
ProcessBufferOf(node, buf) ==
    CASE prof[node].kind = "noop"   -> buf
      [] prof[node].kind = "const"  -> [x \in 1..Len(buf) |-> ConstValue]
      [] prof[node].kind = "ramp"   -> [x \in 1..Len(buf) |-> Q(x, 4)]
      [] prof[node].kind = "double" -> [x \in 1..Len(buf) |-> RMul(Q(2, 1), buf[x])]

(***************************************************************************)
(* Frames of audio_requested.                                              *)
(*   k        inputs already mixed; input k + 1 is the one in hand         *)
(*   pc       loop: at the head of the loop over inputs;                   *)
(*            wait: inside input.audio_requested;                          *)
(*            mix: in the loops over i and j                               *)
(*   working  the scratch buffer of the input in hand                      *)
(*   entry, seen  history: the output buffer at entry, and the indices the *)
(*            mixing loop has written for the input in hand                *)
(***************************************************************************)
Top == stack[Len(stack)]

Depth == Len(stack)

(* The output buffer of the frame at depth d: the caller's buffer for the  *)
(* root, the caller's scratch buffer otherwise.                            *)
OutBuf(d) == IF d = 1 THEN output ELSE stack[d - 1].working

Enter(node, buf) ==
    [node |-> node, gain |-> VolPerChannel(Vol(node), Pan(node)),
     k |-> 0, pc |-> "loop", i |-> 0, j |-> 0,
     working |-> <<>>, entry |-> buf, seen |-> <<>>]

(* for input in self.inputs().into_iter(): the iteration is over *)
InputsDoneEarly(frame) == frame.k + 1 >= Len(Inputs(frame.node))

InputsDone(frame) == frame.k = Len(Inputs(frame.node))

(* input.audio_requested(&mut working, settings): the node called *)
CalleeSelf(frame) == frame.node

Callee(frame) == Inputs(frame.node)[frame.k + 1]

(* let mut working = AudioBuffer::zeroed(buffer_size) *)
FreshWorkingReused(frame) ==
    IF frame.working = <<>> THEN Zeroed(BufferSize) ELSE frame.working

FreshWorking(frame) == Zeroed(BufferSize)

(* let idx = i * channels + j *)
IdxUnscaled(i, j) == i + j

Idx(i, j) == i * settings.channels + j

(* output.val(idx) + working_f32 * vol_per_channel[j] *)
MixedSampleNoGain(out, work, g) == RAdd(out, work)

MixedSampleOverwrite(out, work, g) == RMul(work, g)

MixedSample(out, work, g) == RAdd(out, RMul(work, g))

Priors(len) ==
    {Zeroed(len), Pattern(len)} \cup (IF len > 0 THEN {Pattern(len - 1)} ELSE {})

(* Before the pull: a tree of nodes drawn from the implementations P, the  *)
(* settings, and the caller's buffer.                                      *)
InitWith(P) ==
    /\ tree \in Trees
    /\ prof \in [Nodes -> P \cup {DefaultProfile}]
    /\ \A m \in Nodes : m > tree.n => prof[m] = DefaultProfile
    /\ settings \in [frames : 0..MaxFrames, channels : 1..MaxChannels]
    /\ output \in Priors(settings.frames * settings.channels)
    /\ prior = output
    /\ stack = <<>>
    /\ phase = "idle"
    /\ fault = "none"
    /\ pulled = [m \in Nodes |-> 0]
    /\ processed = [m \in Nodes |-> 0]
    /\ mixed = [m \in Nodes |-> 0]
    /\ produced = [m \in Nodes |-> <<>>]

Init == InitWith(Profiles)

(* A variant of the entry that clears the caller's buffer first. *)
AudioRequestedClearing ==
    /\ phase = "idle"
    /\ phase' = "running"
    /\ output' = Zeroed(Len(output))
    /\ stack' = <<Enter(1, output)>>
    /\ pulled' = [pulled EXCEPT ![1] = @ + 1]
    /\ UNCHANGED <<tree, prof, settings, fault, prior, processed, mixed, produced>>

(***************************************************************************)
(* The caller invokes audio_requested on the root (lines 61-65).           *)
(***************************************************************************)
AudioRequested ==
    /\ phase = "idle"
    /\ phase' = "running"
    /\ stack' = <<Enter(1, output)>>
    /\ pulled' = [pulled EXCEPT ![1] = @ + 1]
    /\ UNCHANGED <<tree, prof, settings, output, fault, prior, processed, mixed, produced>>

(***************************************************************************)
(* The loop over inputs takes the next input: a zeroed scratch buffer and  *)
(* the recursive call (lines 66-69, 62-65 of the callee).                  *)
(***************************************************************************)
CallInput ==
    /\ phase = "running"
    /\ Top.pc = "loop"
    /\ ~InputsDone(Top)
    /\ LET child == Callee(Top)
           fresh == FreshWorking(Top)
           caller == [Top EXCEPT !.working = fresh, !.pc = "wait",
                                 !.i = 0, !.j = 0, !.seen = <<>>]
       IN  /\ stack' = Append([stack EXCEPT ![Depth] = caller], Enter(child, fresh))
           /\ pulled' = [pulled EXCEPT ![child] = @ + 1]
    /\ UNCHANGED <<tree, prof, settings, output, phase, fault, prior, processed, mixed, produced>>

(***************************************************************************)
(* The loop over inputs is over: process_buffer, then return (lines        *)
(* 81-83).  The caller, if any, goes on to its mixing loops (line 71); of  *)
(* zero frames they are over at once.                                      *)
(***************************************************************************)
ProcessBuffer ==
    /\ phase = "running"
    /\ Top.pc = "loop"
    /\ InputsDone(Top)
    /\ LET node == Top.node
           result == ProcessBufferOf(node, OutBuf(Depth))
       IN  /\ processed' = [processed EXCEPT ![node] = @ + 1]
           /\ produced' = [produced EXCEPT ![node] = result]
           /\ IF Depth = 1
              THEN /\ output' = result
                   /\ stack' = <<>>
                   /\ phase' = "done"
                   /\ mixed' = mixed
              ELSE LET caller == stack[Depth - 1]
                       empty == settings.frames = 0
                       back == [caller EXCEPT
                                  !.working = result,
                                  !.pc = IF empty THEN "loop" ELSE "mix",
                                  !.k = IF empty THEN @ + 1 ELSE @]
                   IN  /\ stack' = [SubSeq(stack, 1, Depth - 1) EXCEPT ![Depth - 1] = back]
                       /\ mixed' = [mixed EXCEPT ![node] = IF empty THEN @ + 1 ELSE @]
                       /\ UNCHANGED <<output, phase>>
    /\ UNCHANGED <<tree, prof, settings, fault, prior, pulled>>

(***************************************************************************)
(* One pass of the body of the loops over i and j (lines 71-79): read      *)
(* working[idx], index vol_per_channel[j], read and write output[idx].     *)
(* An index out of its range unwinds the pull.                             *)
(***************************************************************************)
MixSample ==
    /\ phase = "running"
    /\ Top.pc = "mix"
    /\ LET i == Top.i
           j == Top.j
           idx == Idx(i, j)
           out == OutBuf(Depth)
           child == Inputs(Top.node)[Top.k + 1]
           last == j + 1 = settings.channels /\ i + 1 = settings.frames
       IN  IF idx >= Len(Top.working) \/ j >= NumGains \/ idx >= Len(out)
           THEN /\ phase' = "panic"
                /\ fault' = IF idx >= Len(Top.working) THEN "working_index"
                            ELSE IF j >= NumGains THEN "gain_index"
                            ELSE "output_index"
                /\ UNCHANGED <<output, stack, mixed>>
           ELSE LET value == MixedSample(out[idx + 1], Top.working[idx + 1], Top.gain[j + 1])
                    frame == [Top EXCEPT
                                !.seen = Append(@, idx),
                                !.j = IF j + 1 < settings.channels THEN j + 1 ELSE 0,
                                !.i = IF j + 1 < settings.channels THEN i ELSE i + 1,
                                !.pc = IF last THEN "loop" ELSE "mix",
                                !.k = IF last THEN @ + 1 ELSE @]
                IN  /\ IF Depth = 1
                       THEN /\ output' = [output EXCEPT ![idx + 1] = value]
                            /\ stack' = [stack EXCEPT ![Depth] = frame]
                       ELSE /\ output' = output
                            /\ stack' = [stack EXCEPT
                                           ![Depth] = frame,
                                           ![Depth - 1].working[idx + 1] = value]
                    /\ mixed' = [mixed EXCEPT ![child] = IF last THEN @ + 1 ELSE @]
                    /\ UNCHANGED <<phase, fault>>
    /\ UNCHANGED <<tree, prof, settings, prior, pulled, processed, produced>>

Next == AudioRequested \/ CallInput \/ ProcessBuffer \/ MixSample

Spec == Init /\ [][Next]_vars


(***************************************************************************)
(* The pan law alone: one node with no inputs, its volume and pan drawn    *)
(* from a grid that reaches beyond [-1, 1]; the caller's audio_requested   *)
(* computes vol_per_channel (line 65).                                     *)
(***************************************************************************)
GainPans == {Q(p, 4) : p \in (-MaxPanQ)..MaxPanQ}

GainVols == {One, Q(2, 1), Q(1, 2), Q(3, 4), Q(-1, 1), Zero}

LeafTree == [n |-> 1, inputs |-> [m \in Nodes |-> <<>>]]

GainInit ==
    /\ tree = LeafTree
    /\ \E v \in GainVols, p \in GainPans :
           prof = [m \in Nodes |-> IF m = 1 THEN [vol |-> v, pan |-> p, kind |-> "noop"]
                                   ELSE DefaultProfile]
    /\ settings = [frames |-> 1, channels |-> 2]
    /\ output = Zeroed(2)
    /\ prior = output
    /\ stack = <<>>
    /\ phase = "idle"
    /\ fault = "none"
    /\ pulled = [m \in Nodes |-> 0]
    /\ processed = [m \in Nodes |-> 0]
    /\ mixed = [m \in Nodes |-> 0]
    /\ produced = [m \in Nodes |-> <<>>]

GainNext == AudioRequested

GainSpec == GainInit /\ [][GainNext]_vars

(***************************************************************************)
(* Properties.  a = b * c on rationals, by cross-multiplication.           *)
(***************************************************************************)
IsProduct(a, b, c) == a[1] * b[2] * c[2] = b[1] * c[1] * a[2]

InUnit(a) == 0 <= a[1] /\ a[1] <= a[2]

(* The frames whose gain has been computed. *)
Frames == {stack[d] : d \in 1..Len(stack)}

(* C1: vol_per_channel returns [volume * |pan - 1|, volume] when pan >= 0  *)
(* and [volume, volume * (pan + 1)] when pan < 0; (pan 0, vol 1) gives     *)
(* [1, 1], (pan 1, vol 1) gives [0, 1], (pan -1, vol 1) gives [1, 0] and   *)
(* (pan 0.5, vol 2) gives [1, 2].                                          *)
C1_GainLaw ==
    \A f \in Frames :
        LET v == Vol(f.node)
            p == Pan(f.node)
            g == f.gain
            distance == <<IAbs(p[1] - p[2]), p[2]>>
            above == <<p[1] + p[2], p[2]>>
        IN  /\ Len(g) = 2
            /\ p[1] >= 0 => IsProduct(g[1], v, distance) /\ g[2] = v
            /\ p[1] < 0 => g[1] = v /\ IsProduct(g[2], v, above)
            /\ (p = <<0, 1>> /\ v = <<1, 1>>) => g = << <<1, 1>>, <<1, 1>> >>
            /\ (p = <<1, 1>> /\ v = <<1, 1>>) => g = << <<0, 1>>, <<1, 1>> >>
            /\ (p = <<-1, 1>> /\ v = <<1, 1>>) => g = << <<1, 1>>, <<0, 1>> >>
            /\ (p = <<1, 2>> /\ v = <<2, 1>>) => g = << <<1, 1>>, <<2, 1>> >>

C1_Witness ==
    /\ phase = "running"
    /\ Len(stack) = 1
    /\ Pan(1) = <<1, 2>>
    /\ Vol(1) = <<2, 1>>
    /\ stack[1].gain = << <<1, 1>>, <<2, 1>> >>

(* C7 as stated: with volume 1, every pan outside [-1, 1] gives a gain     *)
(* outside [0, 1], and every pan inside [-1, 1] gives both gains inside.   *)
C7_Original ==
    \A f \in Frames :
        LET p == Pan(f.node)
            g == f.gain
            inside == -p[2] <= p[1] /\ p[1] <= p[2]
        IN  Vol(f.node) = One =>
                /\ inside => InUnit(g[1]) /\ InUnit(g[2])
                /\ ~inside => ~InUnit(g[1]) \/ ~InUnit(g[2])

(* C7, amended: no clamping is performed on pan.  With volume 1, a pan     *)
(* below -1 gives a negative right gain and a pan above 2 a left gain      *)
(* above 1; a pan in (1, 2] gives the left gain pan - 1 and the right gain *)
(* 1, both inside [0, 1]; every pan inside [-1, 1] gives both gains inside *)
(* [0, 1].                                                                 *)
C7_NoClamp ==
    \A f \in Frames :
        LET p == Pan(f.node)
            g == f.gain
            inside == -p[2] <= p[1] /\ p[1] <= p[2]
        IN  Vol(f.node) = One =>
                /\ inside => InUnit(g[1]) /\ InUnit(g[2])
                /\ p[1] < -p[2] => g[1] = One /\ g[2][1] < 0
                /\ p[1] > 2 * p[2] => g[1][1] > g[1][2] /\ g[2] = One
                /\ (p[1] > p[2] /\ p[1] <= 2 * p[2]) =>
                       /\ g[1] = <<p[1] - p[2], p[2]>>
                       /\ g[2] = One
                       /\ InUnit(g[1])

C7_Witness ==
    /\ phase = "running"
    /\ Len(stack) = 1
    /\ Vol(1) = One
    /\ Pan(1) = <<3, 1>>
    /\ stack[1].gain = << <<2, 1>>, <<1, 1>> >>

(***************************************************************************)
(* What a pull computes, stated over the set of a node's inputs (no order) *)
(* and whole buffers: every input's signal, pulled from silence, scaled by *)
(* the node's gain of the sample's channel and added; then the node's      *)
(* process_buffer.                                                         *)
(***************************************************************************)
InputSet(node) == {Inputs(node)[x] : x \in 1..Len(Inputs(node))}

GainOf(node) == VolPerChannel(Vol(node), Pan(node))

(* The channel (0, 1, ...) of element x of an interleaved buffer. *)
ChannelOf(x) == (x - 1) % settings.channels

Scaled(signal, gain) ==
    [x \in 1..Len(signal) |-> <<signal[x][1] * gain[ChannelOf(x) + 1][1],
                                signal[x][2] * gain[ChannelOf(x) + 1][2]>>]

Same(a, b) == a[1] * b[2] = b[1] * a[2]

SameBuffer(a, b) == Len(a) = Len(b) /\ \A x \in 1..Len(a) : Same(a[x], b[x])

Plus(a, b) == [x \in 1..Len(a) |-> <<a[x][1] * b[x][2] + b[x][1] * a[x][2], a[x][2] * b[x][2]>>]

RECURSIVE RefPull(_, _), RefMix(_, _, _)
RefMix(S, gain, buf) ==
    IF S = {} THEN buf
    ELSE LET c == CHOOSE x \in S : TRUE
         IN  RefMix(S \ {c}, gain, Plus(buf, Scaled(RefPull(c, Zeroed(BufferSize)), gain)))

RefPull(node, buf) == ProcessBufferOf(node, RefMix(InputSet(node), GainOf(node), buf))

(* The buffer a node's audio_requested was given. *)
EntryOf(node) == IF node = 1 THEN prior ELSE Zeroed(BufferSize)

OneInputNoop(node) ==
    /\ node \in 1..tree.n
    /\ processed[node] = 1
    /\ Len(Inputs(node)) = 1
    /\ prof[node].kind = "noop"

(* C2 as stated: for a node with exactly one input and a no-op             *)
(* process_buffer, after audio_requested                                   *)
(* output[i*channels + j] = input_signal[i*channels + j] * gain[j] for     *)
(* every frame i and channel j.                                            *)
C2_Original ==
    \A node \in Nodes :
        OneInputNoop(node) =>
            \A i \in 0..(settings.frames - 1) : \A j \in 0..(settings.channels - 1) :
                IsProduct(produced[node][i * settings.channels + j + 1],
                          produced[Inputs(node)[1]][i * settings.channels + j + 1],
                          GainOf(node)[j + 1])

(* C2, amended: for a node with exactly one input and a no-op              *)
(* process_buffer, after audio_requested                                   *)
(* output[i*channels + j] = before[i*channels + j]                         *)
(*                          + input_signal[i*channels + j] * gain[j]       *)
(* for every frame i and channel j, where before is the output buffer's    *)
(* content at the call; so the output is the input's signal scaled by      *)
(* gain_per_channel() exactly when the buffer was zero at the call, as it  *)
(* is for every node pulled by its parent.                                 *)
C2_ScaledInput ==
    \A node \in Nodes :
        OneInputNoop(node) =>
            /\ Len(produced[node]) = BufferSize
            /\ \A i \in 0..(settings.frames - 1) : \A j \in 0..(settings.channels - 1) :
                LET x == i * settings.channels + j + 1
                    before == EntryOf(node)[x]
                    got == produced[node][x]
                    scaled == <<got[1] * before[2] - before[1] * got[2], got[2] * before[2]>>
                IN  /\ IsProduct(scaled, produced[Inputs(node)[1]][x], GainOf(node)[j + 1])
                    /\ before = Zero =>
                           IsProduct(got, produced[Inputs(node)[1]][x], GainOf(node)[j + 1])

C2_Witness ==
    /\ phase = "done"
    /\ OneInputNoop(1)
    /\ settings = [frames |-> 2, channels |-> 2]
    /\ prior = Zeroed(4)
    /\ GainOf(1) = <<Q(1, 2), Q(1, 4)>>
    /\ produced[Inputs(1)[1]] = <<Q(1, 4), Q(1, 2), Q(3, 4), One>>
    /\ output = <<Q(1, 8), Q(1, 8), Q(3, 8), Q(1, 4)>>

(* A frame whose loop over inputs is over and whose process_buffer has not *)
(* run yet.                                                                *)
MixedAll(f) == f.pc = "loop" /\ f.k = Len(Inputs(f.node))

IsConstant(buf, v) == Len(buf) = BufferSize /\ \A x \in 1..Len(buf) : buf[x] = v

(* C3: when a node whose gain is [1, 1] has two inputs that each emit the  *)
(* constant value v at every sample, pulling it with a zero-initialized    *)
(* output buffer yields 2v at every sample once both are mixed, and that   *)
(* is what the pull returns when the node's process_buffer is the no-op.   *)
C3_TwoInputsSum ==
    /\ \A node \in Nodes :
        (/\ processed[node] = 1
         /\ prof[node].kind = "noop"
         /\ Len(Inputs(node)) = 2
         /\ GainOf(node) = <<One, One>>
         /\ EntryOf(node) = Zeroed(BufferSize)
         /\ BufferSize > 0
         /\ IsConstant(produced[Inputs(node)[1]], produced[Inputs(node)[1]][1])
         /\ IsConstant(produced[Inputs(node)[2]], produced[Inputs(node)[1]][1]))
        => LET v == produced[Inputs(node)[1]][1]
           IN  /\ Len(produced[node]) = BufferSize
               /\ \A x \in 1..BufferSize : Same(produced[node][x], <<2 * v[1], v[2]>>)
    /\ \A d \in 1..Len(stack) :
        LET f == stack[d]
        IN  (/\ MixedAll(f)
             /\ Len(Inputs(f.node)) = 2
             /\ f.gain = <<One, One>>
             /\ f.entry = Zeroed(BufferSize)
             /\ BufferSize > 0
             /\ IsConstant(produced[Inputs(f.node)[1]], produced[Inputs(f.node)[1]][1])
             /\ IsConstant(produced[Inputs(f.node)[2]], produced[Inputs(f.node)[1]][1]))
            => LET v == produced[Inputs(f.node)[1]][1]
               IN  /\ Len(OutBuf(d)) = BufferSize
                   /\ \A x \in 1..BufferSize : Same(OutBuf(d)[x], <<2 * v[1], v[2]>>)

C3_Witness ==
    /\ phase = "running"
    /\ Len(stack) = 1
    /\ MixedAll(stack[1])
    /\ Len(Inputs(1)) = 2
    /\ stack[1].gain = <<One, One>>
    /\ settings = [frames |-> 2, channels |-> 2]
    /\ prior = Zeroed(4)
    /\ produced[2] = [x \in 1..4 |-> Q(1, 2)]
    /\ produced[3] = [x \in 1..4 |-> Q(1, 2)]
    /\ output = [x \in 1..4 |-> One]

(* C4: for a node with zero inputs the mixing step leaves every sample of  *)
(* the output buffer unchanged, whatever its prior content, volume and     *)
(* pan; what the node returns is what its process_buffer makes of that     *)
(* buffer.                                                                 *)
C4_NoInputsUnchanged ==
    /\ \A d \in 1..Len(stack) :
           Len(Inputs(stack[d].node)) = 0 =>
               /\ MixedAll(stack[d])
               /\ OutBuf(d) = stack[d].entry
               /\ OutBuf(d) = EntryOf(stack[d].node)
    /\ \A node \in Nodes :
           (processed[node] = 1 /\ Len(Inputs(node)) = 0) =>
               produced[node] = ProcessBufferOf(node, EntryOf(node))

C4_Witness ==
    /\ phase = "running"
    /\ Len(stack) = 1
    /\ Len(Inputs(1)) = 0
    /\ Vol(1) = Q(1, 2)
    /\ Pan(1) = Q(-1, 2)
    /\ settings = [frames |-> 2, channels |-> 2]
    /\ prior = Pattern(4)
    /\ output = Pattern(4)

(* C5: in one pull of the root every node of the tree has its              *)
(* process_buffer invoked exactly once, and a node's process_buffer runs   *)
(* only after every one of its inputs has been pulled, has run its own     *)
(* process_buffer and has been mixed into the node's output.               *)
C5_ProcessOnceAfterInputs ==
    /\ \A node \in Nodes : processed[node] <= 1 /\ pulled[node] <= 1
    /\ \A node \in Nodes : node > tree.n => processed[node] = 0
    /\ phase = "done" => \A node \in 1..tree.n : processed[node] = 1
    /\ \A node \in Nodes :
           processed[node] = 1 =>
               \A c \in InputSet(node) :
                   pulled[c] = 1 /\ processed[c] = 1 /\ mixed[c] = 1

C5_Witness ==
    /\ phase = "done"
    /\ tree.n = 3
    /\ Inputs(1) = <<2>>
    /\ Inputs(2) = <<3>>
    /\ settings.frames = 2
    /\ \A node \in 1..3 : processed[node] = 1 /\ pulled[node] = 1

(***************************************************************************)
(* The steps a pull still has to take: for a node, one per input called,   *)
(* the input's own steps, one per sample mixed, and one for                *)
(* process_buffer.                                                         *)
(***************************************************************************)
MixSteps == settings.frames * settings.channels

RECURSIVE Work(_), WorkFrom(_, _)
WorkFrom(node, m) ==
    IF m > Len(Inputs(node)) THEN 0
    ELSE 1 + Work(Inputs(node)[m]) + MixSteps + WorkFrom(node, m + 1)

Work(node) == 1 + WorkFrom(node, 1)

Remaining(f) ==
    CASE f.pc = "loop" -> 1 + WorkFrom(f.node, f.k + 1)
      [] f.pc = "wait" -> 1 + MixSteps + WorkFrom(f.node, f.k + 2)
      [] f.pc = "mix"  -> 1 + (MixSteps - (f.i * settings.channels + f.j))
                            + WorkFrom(f.node, f.k + 2)

RECURSIVE RemainingBelow(_)
RemainingBelow(d) == IF d = 0 THEN 0 ELSE Remaining(stack[d]) + RemainingBelow(d - 1)

Measure ==
    CASE phase = "idle"    -> 1 + Work(1)
      [] phase = "running" -> RemainingBelow(Len(stack))
      [] OTHER             -> 0

(* The caller's side of the contract: a buffer of frames * channels        *)
(* samples, and mono or stereo.                                            *)
Precondition == Len(prior) = BufferSize /\ settings.channels \in {1, 2}

(* The scheduling: the pull is one synchronous call, which goes on while   *)
(* it has a step to take.  No step of audio_requested branches on a        *)
(* sample, a volume or a pan, so the nodes here are the default            *)
(* implementation and a source.                                            *)
FairProfiles == {[vol |-> Q(2, 1), pan |-> Q(1, 2), kind |-> "ramp"]}

FairInit == InitWith(FairProfiles)

FairSpec == FairInit /\ [][Next]_vars /\ WF_vars(Next)

(* C6: a pull of the root terminates for any finite acyclic tree, whatever *)
(* its depth and branching: it ends, completed when the caller's contract  *)
(* holds, and every step takes the count of steps still to take down.      *)
C6_Terminates ==
    /\ <>(phase \in {"done", "panic"})
    /\ [](Precondition => phase # "panic")
    /\ [][Measure' < Measure /\ Measure' >= 0]_vars

C6_Witness ==
    /\ phase = "done"
    /\ tree.n = 3
    /\ Inputs(1) = <<3, 2>>
    /\ settings = [frames |-> 2, channels |-> 2]
    /\ pulled = [m \in Nodes |-> 1]
    /\ Measure = 0

(* C8: the result of a pull does not depend on the order in which inputs() *)
(* returns the inputs: whatever the order, the final output buffer is the  *)
(* one computed over the set of inputs.                                    *)
C8_OrderIndependent ==
    phase = "done" => SameBuffer(output, RefPull(1, prior))

C8_Witness ==
    /\ phase = "done"
    /\ Inputs(1) = <<3, 2>>
    /\ settings = [frames |-> 2, channels |-> 2]
    /\ prof[1].kind = "noop"
    /\ GainOf(1) = <<Q(1, 2), Q(1, 4)>>
    /\ produced[2] = [x \in 1..4 |-> Q(1, 2)]
    /\ produced[3] = [x \in 1..4 |-> Q(x, 4)]
    /\ prior = Pattern(4)
    /\ output # prior

(* C9: each input is pulled into its own fresh zero-filled scratch buffer  *)
(* of frames * channels samples, so what an input produces depends on its  *)
(* own subtree alone; a step of audio_requested writes only the output     *)
(* buffer of the call that takes it (the caller's buffer for the root, the *)
(* caller's scratch buffer otherwise) or allocates that call's scratch     *)
(* buffer, and leaves the nodes and the settings alone.                    *)
FreshScratch ==
    \A d \in 2..Len(stack) : stack[d].entry = Zeroed(BufferSize)

OwnSubtreeOnly ==
    \A node \in 2..MaxNodes :
        processed[node] = 1 =>
            SameBuffer(produced[node], RefPull(node, Zeroed(BufferSize)))

WritesOwnOutputOnly ==
    /\ output' # output => Len(stack) = 1
    /\ \A d \in 1..Len(stack) :
           (d <= Len(stack') /\ stack'[d].working # stack[d].working)
               => d >= Len(stack) - 1
    /\ \A d \in 1..Len(stack) :
           (d < Len(stack) /\ d <= Len(stack')) => stack'[d].entry = stack[d].entry
    /\ UNCHANGED <<tree, prof, settings>>

C9_ScratchIsolation ==
    /\ [](FreshScratch /\ OwnSubtreeOnly)
    /\ [][WritesOwnOutputOnly]_vars

C9_Witness ==
    /\ phase = "running"
    /\ Len(stack) = 2
    /\ stack[1].k = 1
    /\ stack[1].pc = "wait"
    /\ stack[1].working = Zeroed(4)
    /\ stack[2].entry = Zeroed(4)
    /\ stack[2].node = 3
    /\ produced[2] = [x \in 1..4 |-> Q(x, 4)]
    /\ output # Zeroed(4)

(* C10: given an output buffer of frames * channels samples and one or two *)
(* channels, the mixing loop never indexes out of range: for every input   *)
(* the pairs (i, j) map to distinct indices i*channels + j below           *)
(* frames*channels, every output sample is updated exactly once per input, *)
(* and the gain index is 0 or 1; with more than two channels the gain      *)
(* index leaves the two-element gain array: the first frame any input is  *)
(* mixed into stops the pull at j = 2, and no mix is ever completed.       *)
C10_IndexRanges ==
    /\ Precondition =>
           /\ phase # "panic"
           /\ \A d \in 1..Len(stack) :
                  LET f == stack[d]
                  IN  /\ \A x \in 1..Len(f.seen) : f.seen[x] \in 0..(BufferSize - 1)
                      /\ \A x, y \in 1..Len(f.seen) : f.seen[x] = f.seen[y] => x = y
                      /\ f.pc = "mix" =>
                             /\ f.j \in {0, 1}
                             /\ f.i * settings.channels + f.j < BufferSize
                             /\ Len(f.seen) = f.i * settings.channels + f.j
                      /\ (f.pc = "loop" /\ f.k > 0) => Len(f.seen) = BufferSize
    /\ settings.channels > 2 =>
           /\ phase = "panic" => 
                  /\ fault = "gain_index"
                  /\ Top.pc = "mix" /\ Top.i = 0 /\ Top.j = NumGains
           /\ (settings.frames > 0 /\ tree.n > 1) => phase # "done"
           /\ settings.frames > 0 => \A d \in 1..Len(stack) : stack[d].k = 0

C10_Witness ==
    /\ phase = "running"
    /\ Precondition
    /\ settings = [frames |-> 2, channels |-> 2]
    /\ Len(stack) = 1
    /\ stack[1].pc = "loop"
    /\ stack[1].k = 1
    /\ stack[1].seen = <<0, 1, 2, 3>>

=============================================================================
